---- MODULE Spec2Model ----
(***************************************************************************)
(* Payment-processor adapters of the ecommerce service: the Adyen          *)
(* (encrypted card) processor and the PayPal (redirect wallet) processor. *)
(*                                                                         *)
(* Every processor method runs synchronously inside one request, so each  *)
(* method is one action.  The ledger (the order's payment source, its     *)
(* payment events, its refunds) and the audit log of processor responses  *)
(* are the persistent state; the variables op, arg, outcome, ret, calls   *)
(* and pre describe the most recent invocation: which method ran, on what *)
(* input, how it ended (returned, or the exception that left it), what it *)
(* returned, how many gateway calls it made and what the persistent state *)
(* was when it started.                                                    *)
(*                                                                         *)
(* Python values: a dict is a function whose DOMAIN is the set of keys    *)
(* present; a str that the code lower-cases is a tuple of characters;     *)
(* None and optional objects are records with a kind field; Decimal        *)
(* amounts are whole units.                                                *)
(***************************************************************************)
EXTENDS Integers, Sequences, FiniteSets, TLC

VARIABLES
    basketTotal,    \* basket.total_incl_tax of the basket being purchased
    orderPlaced,    \* TRUE once basket.order_set holds the order
    source,         \* order.sources.first(): the persisted payment source
    events,         \* persisted PaymentEvent rows, in creation order
    refunds,        \* order.refunds, in creation order
    revocations,    \* number of fulfillment revocations requested
    audit,          \* PaymentProcessorResponse rows, in creation order
    retry_attempts, \* Paypal.retry_attempts (PaypalProcessorConfiguration)
    switch_active,  \* waffle switch PAYPAL_RETRY_ATTEMPTS
    op,             \* the method invoked last
    arg,            \* its input
    outcome,        \* "returned", or the name of the exception raised
    ret,            \* the value returned, or the message of the exception
    calls,          \* gateway calls made by the invocation
    pre             \* persistent state when the invocation started

vars == <<basketTotal, orderPlaced, source, events, refunds, revocations,
          audit, retry_attempts, switch_active, op, arg, outcome, ret,
          calls, pre>>

ledgerVars == <<source, events, refunds, revocations>>
configVars == <<basketTotal, retry_attempts, switch_active>>

-----------------------------------------------------------------------------
(* Bounds of the model *)

MaxTotal == 2           \* basket totals are 1..MaxTotal
MaxCredit == 2          \* refund.total_credit_excl_tax is 1..MaxCredit
MaxRefunds == 1         \* refunds created for the order
MaxAuditBefore == 0     \* audit rows present when a gateway flow starts
MaxRetryAttempts == 3   \* configured PayPal retry count is 0..MaxRetryAttempts
MaxUnrecorded == 1      \* a write may raise while the credit no event records
                        \* is below MaxUnrecorded

-----------------------------------------------------------------------------
(* Strings and str.lower() *)

UpperToLower ==
    [A |-> "a", B |-> "b", C |-> "c", D |-> "d", E |-> "e", F |-> "f",
     G |-> "g", H |-> "h", I |-> "i", J |-> "j", K |-> "k", L |-> "l",
     M |-> "m", N |-> "n", O |-> "o", P |-> "p", Q |-> "q", R |-> "r",
     S |-> "s", T |-> "t", U |-> "u", V |-> "v", W |-> "w", X |-> "x",
     Y |-> "y", Z |-> "z"]

LowerChar(c) == IF c \in DOMAIN UpperToLower THEN UpperToLower[c] ELSE c

\* str.lower(): every cased character replaced by its lower-case form
Lower(s) == [i \in DOMAIN s |-> LowerChar(s[i])]

authorisation == <<"a","u","t","h","o","r","i","s","a","t","i","o","n">>
cancel_or_refund ==
    <<"c","a","n","c","e","l","_","o","r","_","r","e","f","u","n","d">>
authorised == <<"a","u","t","h","o","r","i","s","e","d">>

\* the methods of Adyen named _handle_<event>
HandlerNames == {authorisation, cancel_or_refund}

\* event codes responses arrive with: the code authorise() sets, another
\* spelling of it, the refund notification, and a code without a handler
EC_AUTHORISATION == <<"A","U","T","H","O","R","I","S","A","T","I","O","N">>
EC_Authorisation == <<"A","u","t","h","o","r","i","s","a","t","i","o","n">>
EC_CANCEL_OR_REFUND ==
    <<"C","A","N","C","E","L","_","O","R","_","R","E","F","U","N","D">>
EC_CAPTURE == <<"C","A","P","T","U","R","E">>

EventCodes ==
    {EC_AUTHORISATION, EC_Authorisation, EC_CANCEL_OR_REFUND, EC_CAPTURE}

\* result codes of an authorise response
RC_Authorised == <<"A","u","t","h","o","r","i","s","e","d">>
RC_AUTHORISED == <<"A","U","T","H","O","R","I","S","E","D">>
RC_Refused == <<"R","e","f","u","s","e","d">>

ResultCodes == {RC_Authorised, RC_AUTHORISED, RC_Refused}

PspReferences == {"psp1"}

-----------------------------------------------------------------------------
(* Values *)

None == [kind |-> "none"]

NAME_ADYEN == "adyen"
NAME_PAYPAL == "paypal"

PAID == "Paid"
REFUNDED == "Refunded"

PENDING_WITH_REVOCATION == "Pending With Revocation"
PENDING_WITHOUT_REVOCATION == "Pending Without Revocation"
PAYMENT_REFUNDED == "Payment Refunded"
COMPLETE == "Complete"

\* a status filter that lets the refunds already handled through
PendingStatuses_any ==
    {PENDING_WITH_REVOCATION, PENDING_WITHOUT_REVOCATION, PAYMENT_REFUNDED,
     COMPLETE}

PendingStatuses == {PENDING_WITH_REVOCATION, PENDING_WITHOUT_REVOCATION}

\* a dict entry that may be absent: no key, or key k with a value of S
OptKey(k, S) == {<<>>} \cup {k :> v : v \in S}

\* responses handed to Adyen.handle_processor_response: any of the keys
\* may be absent; resultCode is the field of an authorise response, success
\* the field of a notification
Responses ==
    { e @@ p @@ f :
        e \in OptKey("eventCode", EventCodes),
        p \in OptKey("pspReference", PspReferences),
        f \in OptKey("resultCode", ResultCodes)
               \cup OptKey("success", BOOLEAN) }

\* the basket argument: None (the default) or the basket being purchased
Baskets == {None, [kind |-> "basket", total_incl_tax |-> basketTotal]}

Ledger == [source |-> source, events |-> events, refunds |-> refunds,
           revocations |-> revocations]

Snapshot == [ledger |-> Ledger, audit |-> audit]

-----------------------------------------------------------------------------
(* Adyen.handle_processor_response and its handlers.  A handler maps the   *)
(* ledger L to [outcome, ret, ledger]: how it ended, what it returned and  *)
(* the ledger it left.  An action binds the result of its method with     *)
(* \E r \in {...}, so that the method is evaluated once per input.         *)

Raise(exc, L) == [outcome |-> exc, ret |-> None, ledger |-> L]
Return(v, L) == [outcome |-> "returned", ret |-> v, ledger |-> L]

\* Source(source_type, currency, amount_allocated, amount_debited, reference)
NewSource(total, reference) ==
    [kind |-> "source", amount_allocated |-> total, amount_debited |-> total,
     amount_refunded |-> 0, reference |-> reference]

\* PaymentEvent(event_type, amount, reference, processor_name)
NewEvent(event_type, amount, reference) ==
    [event_type |-> event_type, amount |-> amount, reference |-> reference,
     processor_name |-> NAME_ADYEN]

\* _handle_authorisation comparing the result code as it arrived
_handle_authorisation_case_sensitive(psp_reference, response, basket, L) ==
    IF "resultCode" \notin DOMAIN response THEN Raise("KeyError", L)
    ELSE IF response.resultCode # authorised
    THEN Raise("TransactionDeclined", L)
    ELSE IF basket = None THEN Raise("AttributeError", L)
    ELSE LET total == basket.total_incl_tax
         IN  Return([kind |-> "source_event",
                     source |-> NewSource(total, psp_reference),
                     event |-> NewEvent(PAID, total, psp_reference)], L)

_handle_authorisation(psp_reference, response, basket, L) ==
    IF "resultCode" \notin DOMAIN response THEN Raise("KeyError", L)
    ELSE IF Lower(response.resultCode) # authorised
    THEN Raise("TransactionDeclined", L)
    ELSE IF basket = None THEN Raise("AttributeError", L)
    ELSE LET total == basket.total_incl_tax
         IN  Return([kind |-> "source_event",
                     source |-> NewSource(total, psp_reference),
                     event |-> NewEvent(PAID, total, psp_reference)], L)

\* Source.refund(amount, reference): the refunded amount grows by amount
SourceRefund(src, amount) ==
    [src EXCEPT !.amount_refunded = @ + amount]

\* Refund.set_status(new_status)
RefundSetStatus(refund, new_status) == [refund EXCEPT !.status = new_status]

\* Refund.complete(revoke_fulfillment)
RefundComplete(refund) == [refund EXCEPT !.status = COMPLETE]

\* a lookup that forgets the refunds pending without revocation
PendingRefunds_with_revocation_only(L) ==
    {i \in DOMAIN L.refunds : L.refunds[i].status = PENDING_WITH_REVOCATION}

PendingRefunds(L) ==
    {i \in DOMAIN L.refunds : L.refunds[i].status \in PendingStatuses}

\* the ledger writes of the success branch, in the order the code makes
\* them: source.refund, refund.set_status, refund.complete,
\* PaymentEvent.objects.create
WriteSteps == 1..4

\* a handler that reads a missing success field as success:
\* response.get('success', True)
_handle_cancel_or_refund_default_success(psp_reference, response, basket, fail_at, L) ==
    IF basket = None THEN Raise("AttributeError", L)
    ELSE IF ~orderPlaced THEN Raise("AttributeError", L)
    ELSE IF PendingRefunds(L) = {} THEN Raise("DoesNotExist", L)
    ELSE IF Cardinality(PendingRefunds(L)) > 1
    THEN Raise("MultipleObjectsReturned", L)
    ELSE LET i == CHOOSE j \in PendingRefunds(L) : TRUE
             refund == L.refunds[i]
             amount == refund.total_credit_excl_tax
         IN  IF "success" \notin DOMAIN response \/ response.success
             THEN IF L.source = None THEN Raise("AttributeError", L)
                  ELSE Return(None,
                         [source |-> SourceRefund(L.source, amount),
                          events |-> Append(L.events,
                              NewEvent(REFUNDED, amount, psp_reference)),
                          refunds |-> [L.refunds EXCEPT ![i] =
                              RefundComplete(
                                  RefundSetStatus(refund, PAYMENT_REFUNDED))],
                          revocations |-> L.revocations +
                              (IF refund.status = PENDING_WITH_REVOCATION
                               THEN 1 ELSE 0)])
             ELSE Raise("GatewayError", L)

\* fail_at is the write that raises, 0 when none does: the handler has no
\* transaction of its own, so the writes made before it stay
_handle_cancel_or_refund(psp_reference, response, basket, fail_at, L) ==
    IF basket = None THEN Raise("AttributeError", L)
    ELSE IF ~orderPlaced THEN Raise("AttributeError", L)
    ELSE IF PendingRefunds(L) = {} THEN Raise("DoesNotExist", L)
    ELSE IF Cardinality(PendingRefunds(L)) > 1
    THEN Raise("MultipleObjectsReturned", L)
    ELSE LET i == CHOOSE j \in PendingRefunds(L) : TRUE
             refund == L.refunds[i]
             amount == refund.total_credit_excl_tax
         IN  IF "success" \in DOMAIN response /\ response.success
             THEN IF L.source = None THEN Raise("AttributeError", L)
                  ELSE LET revoke_fulfillment ==
                               refund.status = PENDING_WITH_REVOCATION
                           credited ==
                               [L EXCEPT !.source =
                                   SourceRefund(L.source, amount)]
                           refunded ==
                               [credited EXCEPT !.refunds[i] =
                                   RefundSetStatus(refund, PAYMENT_REFUNDED)]
                           completed ==
                               [refunded EXCEPT
                                   !.refunds[i] = RefundComplete(@),
                                   !.revocations = @ +
                                       (IF revoke_fulfillment THEN 1 ELSE 0)]
                           recorded ==
                               [completed EXCEPT !.events = Append(@,
                                   NewEvent(REFUNDED, amount, psp_reference))]
                       IN  IF fail_at = 1 THEN Raise("DatabaseError", L)
                           ELSE IF fail_at = 2
                           THEN Raise("DatabaseError", credited)
                           ELSE IF fail_at = 3
                           THEN Raise("DatabaseError", refunded)
                           ELSE IF fail_at = 4
                           THEN Raise("DatabaseError", completed)
                           ELSE Return(None, recorded)
             ELSE Raise("GatewayError", L)

\* the body of the try block: the two key lookups and the getattr dispatch
Dispatch(response, basket, fail_at, L) ==
    IF "eventCode" \notin DOMAIN response THEN Raise("KeyError", L)
    ELSE IF "pspReference" \notin DOMAIN response THEN Raise("KeyError", L)
    ELSE LET event == Lower(response.eventCode)
             psp_reference == response.pspReference
         IN  IF event \notin HandlerNames THEN Raise("AttributeError", L)
             ELSE IF event = authorisation
             THEN _handle_authorisation(psp_reference, response, basket, L)
             ELSE _handle_cancel_or_refund(psp_reference, response, basket,
                                           fail_at, L)

Adyen_handle_processor_response(response, basket, fail_at, L) ==
    LET r == Dispatch(response, basket, fail_at, L)
    IN  IF r.outcome = "KeyError"
        THEN [r EXCEPT !.outcome = "MissingAdyenEventCodeException"]
        ELSE IF r.outcome = "AttributeError"
        THEN [r EXCEPT !.outcome = "UnsupportedAdyenEventException"]
        ELSE r

\* the sum of the amounts of the REFUNDED events among the first n
RECURSIVE RefundedByEvents(_, _)
RefundedByEvents(evs, n) ==
    IF n = 0 THEN 0
    ELSE RefundedByEvents(evs, n - 1)
         + (IF evs[n].event_type = REFUNDED THEN evs[n].amount ELSE 0)

\* the credit of the source that no REFUNDED event records
Unrecorded ==
    IF source = None THEN 0
    ELSE source.amount_refunded - RefundedByEvents(events, Len(events))

\* handle_processor_response on any response, every write succeeding
AdyenHandleProcessorResponse ==
    \E response \in Responses, basket \in Baskets :
        \E r \in {Adyen_handle_processor_response(response, basket, 0,
                                                  Ledger)} :
            /\ op' = "adyen.handle_processor_response"
            /\ arg' = [response |-> response, basket |-> basket,
                       fail_at |-> 0]
            /\ outcome' = r.outcome
            /\ ret' = r.ret
            /\ calls' = 0
            /\ pre' = Snapshot
            /\ source' = r.ledger.source
            /\ events' = r.ledger.events
            /\ refunds' = r.ledger.refunds
            /\ revocations' = r.ledger.revocations
            /\ UNCHANGED <<audit, orderPlaced, configVars>>

\* CANCEL_OR_REFUND notifications, with or without pspReference and success
RefundNotifications ==
    { ("eventCode" :> EC_CANCEL_OR_REFUND) @@ p @@ f :
        p \in OptKey("pspReference", PspReferences),
        f \in OptKey("success", BOOLEAN) }

\* handle_processor_response on a CANCEL_OR_REFUND notification, any of
\* whose writes may raise; a write can raise only in an invocation that
\* reaches the writes
AdyenHandleRefundNotification ==
    \E response \in RefundNotifications, basket \in Baskets :
        \E fail_at \in {0} \cup
                (IF /\ "success" \in DOMAIN response
                    /\ response.success
                    /\ Unrecorded < MaxUnrecorded
                 THEN WriteSteps ELSE {}) :
        \E r \in {Adyen_handle_processor_response(response, basket, fail_at,
                                                  Ledger)} :
            /\ fail_at > 0 => r.outcome = "DatabaseError"
            /\ op' = "adyen.handle_processor_response"
            /\ arg' = [response |-> response, basket |-> basket,
                       fail_at |-> fail_at]
            /\ outcome' = r.outcome
            /\ ret' = r.ret
            /\ calls' = 0
            /\ pre' = Snapshot
            /\ source' = r.ledger.source
            /\ events' = r.ledger.events
            /\ refunds' = r.ledger.refunds
            /\ revocations' = r.ledger.revocations
            /\ UNCHANGED <<audit, orderPlaced, configVars>>

-----------------------------------------------------------------------------
(* Adyen.issue_credit *)

HTTP_OK == 200
StatusCodes == {HTTP_OK, 500}

CANCEL_OR_REFUND_RECEIVED == "[cancelOrRefund-received]"

\* JSON bodies of the cancelOrRefund reply
CreditBodies ==
    { p @@ r :
        p \in OptKey("pspReference", PspReferences),
        r \in OptKey("response", {CANCEL_OR_REFUND_RECEIVED, "[refused]"}) }

\* BasePaymentProcessor.record_processor_response(response, transaction_id)
AuditRow(processor_name, transaction_id, response) ==
    [processor_name |-> processor_name, transaction_id |-> transaction_id,
     response |-> response]

\* maps the audit log aud to [outcome, ret, audit]
Adyen_issue_credit(status_code, adyen_response, aud) ==
    IF status_code = HTTP_OK
    THEN IF "pspReference" \notin DOMAIN adyen_response
         THEN [outcome |-> "KeyError", ret |-> None, audit |-> aud]
         ELSE LET recorded ==
                      Append(aud, AuditRow(NAME_ADYEN,
                                           adyen_response.pspReference,
                                           adyen_response))
              IN  IF "response" \notin DOMAIN adyen_response
                  THEN [outcome |-> "KeyError", ret |-> None,
                        audit |-> recorded]
                  ELSE IF adyen_response.response # CANCEL_OR_REFUND_RECEIVED
                  THEN [outcome |-> "GatewayError", ret |-> None,
                        audit |-> recorded]
                  ELSE [outcome |-> "returned",
                        ret |-> [kind |-> "bool", value |-> FALSE],
                        audit |-> recorded]
    ELSE [outcome |-> "GatewayError", ret |-> None, audit |-> aud]

AdyenIssueCredit ==
    \E status_code \in StatusCodes, adyen_response \in CreditBodies :
        \E r \in {Adyen_issue_credit(status_code, adyen_response, audit)} :
            /\ Len(audit) <= MaxAuditBefore
            /\ op' = "adyen.issue_credit"
            /\ arg' = [status_code |-> status_code,
                       adyen_response |-> adyen_response]
            /\ outcome' = r.outcome
            /\ ret' = r.ret
            /\ calls' = 1
            /\ pre' = Snapshot
            /\ audit' = r.audit
            /\ UNCHANGED <<ledgerVars, orderPlaced, configVars>>

-----------------------------------------------------------------------------
(* Adyen.authorise.  The request payload (card data, amount, reference,   *)
(* shopper data) goes to the gateway and leaves no trace in the state.    *)

\* JSON bodies of the authorise reply
AuthoriseBodies ==
    { p @@ r :
        p \in OptKey("pspReference", PspReferences),
        r \in OptKey("resultCode", {RC_Authorised, RC_Refused}) }

\* the exception classes that are a GatewayError: the request error of the
\* Adyen processor is one
GatewayErrors == {"GatewayError", "AdyenRequestError"}

\* an authorise that returns the reply whatever its HTTP status is
Adyen_authorise_unchecked(status_code, body) ==
    [outcome |-> "returned",
     ret |-> [kind |-> "response",
              response |-> ("eventCode" :> EC_AUTHORISATION) @@ body],
     calls |-> 1]

\* one POST to the authorise endpoint; maps its reply to
\* [outcome, ret, calls]
Adyen_authorise(status_code, body) ==
    LET adyen_response == ("eventCode" :> EC_AUTHORISATION) @@ body
    IN  IF status_code # HTTP_OK
        THEN [outcome |-> "AdyenRequestError", ret |-> None, calls |-> 1]
        ELSE [outcome |-> "returned",
              ret |-> [kind |-> "response", response |-> adyen_response],
              calls |-> 1]

AdyenAuthorise ==
    \E status_code \in StatusCodes, body \in AuthoriseBodies :
        \E r \in {Adyen_authorise(status_code, body)} :
            /\ op' = "adyen.authorise"
            /\ arg' = [status_code |-> status_code, body |-> body]
            /\ outcome' = r.outcome
            /\ ret' = r.ret
            /\ calls' = r.calls
            /\ pre' = Snapshot
            /\ UNCHANGED <<ledgerVars, audit, orderPlaced, configVars>>

-----------------------------------------------------------------------------
(* _get_shopper_data and its helpers: the shopper fields of the authorise  *)
(* request.  billing_address, which the code splits, is a tuple of         *)
(* characters; the other fields are plain strings.                         *)

\* a dict with the entry k: v when v is a non-empty str, else the empty dict
Entry(k, v) == IF v # "" THEN k :> v ELSE <<>>

\* billing_address.split(' ', 1): the parts around the first space, or the
\* whole string as the only part
Split1(str) ==
    IF \E i \in DOMAIN str : str[i] = " "
    THEN LET i == CHOOSE j \in DOMAIN str :
                      /\ str[j] = " "
                      /\ \A k \in 1..(j - 1) : str[k] # " "
         IN  <<SubSeq(str, 1, i - 1), SubSeq(str, i + 1, Len(str))>>
    ELSE <<str>>

_get_shopper_name(first_name, last_name) ==
    IF first_name # "" \/ last_name # ""
    THEN "shopper_name" :> (Entry("firstName", first_name)
                            @@ Entry("lastName", last_name))
    ELSE <<>>

_get_shopper_email(email) == Entry("shopperEmail", email)

\* a helper that drops only the house number and street of an address it
\* cannot split
_get_shopper_billing_address_keeps_block(billing_address, city, state, postal_code, country) ==
    IF \/ Len(billing_address) > 0
       \/ city # "" \/ state # "" \/ postal_code # "" \/ country # ""
    THEN "billingAddress" :>
            ( (IF Len(billing_address) > 0 /\ Len(Split1(billing_address)) = 2
               THEN ("houseNumberOrName" :> Split1(billing_address)[1])
                    @@ ("street" :> Split1(billing_address)[2])
               ELSE <<>>)
              @@ Entry("city", city)
              @@ Entry("stateOrProvince", state)
              @@ Entry("postalCode", postal_code)
              @@ Entry("country", country) )
    ELSE <<>>

\* unpacking the parts into house_number, street raises ValueError unless
\* there are two: the helper then returns the empty dict
_get_shopper_billing_address(billing_address, city, state, postal_code, country) ==
    IF \/ Len(billing_address) > 0
       \/ city # "" \/ state # "" \/ postal_code # "" \/ country # ""
    THEN IF Len(billing_address) > 0 /\ Len(Split1(billing_address)) # 2
         THEN <<>>
         ELSE "billingAddress" :>
                ( (IF Len(billing_address) > 0
                   THEN ("houseNumberOrName" :> Split1(billing_address)[1])
                        @@ ("street" :> Split1(billing_address)[2])
                   ELSE <<>>)
                  @@ Entry("city", city)
                  @@ Entry("stateOrProvince", state)
                  @@ Entry("postalCode", postal_code)
                  @@ Entry("country", country) )
    ELSE <<>>

_get_shopper_ip(ip) == Entry("shopperIP", ip)

\* kw holds the nine keyword arguments
_get_shopper_data(kw) ==
    _get_shopper_name(kw.first_name, kw.last_name)
    @@ _get_shopper_email(kw.email)
    @@ _get_shopper_billing_address(kw.billing_address, kw.city, kw.state,
                                    kw.postal_code, kw.country)
    @@ _get_shopper_ip(kw.ip)

\* billing addresses: empty, without a space, with one and with two spaces
BillingAddresses ==
    { <<>>,
      <<"1", "2", "3">>,
      <<"1", "2", " ", "E", "l", "m">>,
      <<"7", " ", "A", " ", "B">> }

\* the keyword arguments of a call: every field empty or filled in
ShopperData ==
    [first_name : {"", "Ada"}, last_name : {"", "Byron"},
     email : {"", "ada@example.com"}, billing_address : BillingAddresses,
     city : {"", "London"}, state : {"", "LND"}, postal_code : {"", "N1"},
     country : {"", "GB"}, ip : {"", "10.0.0.1"}]

\* the call of _get_shopper_data on the keyword arguments held in arg
GetShopperData ==
    /\ op = "init"
    /\ op' = "adyen._get_shopper_data"
    /\ arg' = arg
    /\ outcome' = "returned"
    /\ ret' = [kind |-> "shopper_data", data |-> _get_shopper_data(arg)]
    /\ calls' = 0
    /\ pre' = Snapshot
    /\ UNCHANGED <<ledgerVars, audit, orderPlaced, configVars>>

-----------------------------------------------------------------------------
(* Paypal.get_transaction_parameters: the create flow *)

\* ids the gateway gives to the payment and to the error of the i-th call
PaymentIds == <<"PAY-1", "PAY-2", "PAY-3", "PAY-4", "PAY-5", "PAY-6">>
DebugIds == <<"dbg-1", "dbg-2", "dbg-3", "dbg-4", "dbg-5", "dbg-6">>

\* how a create call can end: payment.success() true or false, or an
\* exception raised inside the try block
CreateResults == {"success", "unsuccessful", "exception"}

\* rel values of the links of a created payment
LinkShapes ==
    { <<"self", "execute">>,
      <<"self", "approval_url", "execute">>,
      <<"approval_url", "approval_url">> }

\* the payment the i-th create call made; each href names its call
CreatedPayment(i, shape) ==
    [kind |-> "payment", id |-> PaymentIds[i],
     links |-> [k \in DOMAIN shape |-> [rel |-> shape[k], href |-> <<i, k>>]]]

\* payment.error of the i-th call
PaymentError(i) == [kind |-> "error", debug_id |-> DebugIds[i]]

\* available_attempts taken from the configuration whatever the switch is
CreateAvailableAttempts_unswitched == retry_attempts

\* available_attempts of get_transaction_parameters
CreateAvailableAttempts == IF switch_active THEN retry_attempts ELSE 1

\* the for loop from attempt i on: [outcome, payment, audit, calls], where
\* outcome is "break", "exhausted" (the range ran out) or the exception
\* that left the loop
RECURSIVE CreateLoop(_, _, _, _, _)
CreateLoop(i, available_attempts, results, shape, aud) ==
    IF i > available_attempts
    THEN [outcome |-> "exhausted", payment |-> None, audit |-> aud,
          calls |-> i - 1]
    ELSE IF results[i] = "success"
    THEN [outcome |-> "break", payment |-> CreatedPayment(i, shape),
          audit |-> aud, calls |-> i]
    ELSE IF i < available_attempts
    THEN CreateLoop(i + 1, available_attempts, results, shape, aud)
    ELSE IF results[i] = "unsuccessful"
    THEN [outcome |-> "GatewayError", payment |-> None,
          audit |-> Append(aud, AuditRow(NAME_PAYPAL, PaymentError(i).debug_id,
                                         PaymentError(i))),
          calls |-> i]
    ELSE [outcome |-> "ConnectionError", payment |-> None, audit |-> aud,
          calls |-> i]

\* for link in payment.links: the first link whose rel is approval_url
ApprovalLinks(payment) ==
    {k \in DOMAIN payment.links : payment.links[k].rel = "approval_url"}

\* a loop without its break keeps the last approval link
FirstApprovalLink_last(payment) ==
    CHOOSE k \in ApprovalLinks(payment) :
        \A j \in ApprovalLinks(payment) : k >= j

FirstApprovalLink(payment) ==
    CHOOSE k \in ApprovalLinks(payment) :
        \A j \in ApprovalLinks(payment) : k <= j

\* maps the audit log aud to [outcome, ret, audit, calls]
get_transaction_parameters(available_attempts, results, shape, aud) ==
    LET loop == CreateLoop(1, available_attempts, results, shape, aud)
    IN  IF loop.outcome = "exhausted"
        THEN [outcome |-> "UnboundLocalError", ret |-> None,
              audit |-> loop.audit, calls |-> loop.calls]
        ELSE IF loop.outcome # "break"
        THEN [outcome |-> loop.outcome, ret |-> None, audit |-> loop.audit,
              calls |-> loop.calls]
        ELSE LET payment == loop.payment
                 recorded == Append(loop.audit,
                                    AuditRow(NAME_PAYPAL, payment.id, payment))
             IN  IF ApprovalLinks(payment) = {}
                 THEN [outcome |-> "GatewayError", ret |-> None,
                       audit |-> recorded, calls |-> loop.calls]
                 ELSE [outcome |-> "returned",
                       ret |-> [kind |-> "parameters",
                                payment_page_url |->
                                    payment.links[FirstApprovalLink(payment)].href],
                       audit |-> recorded, calls |-> loop.calls]

PaypalGetTransactionParameters ==
    \E results \in [1..CreateAvailableAttempts -> CreateResults],
       shape \in LinkShapes :
        \E r \in {get_transaction_parameters(CreateAvailableAttempts, results,
                                            shape, audit)} :
            /\ Len(audit) <= MaxAuditBefore
            /\ op' = "paypal.get_transaction_parameters"
            /\ arg' = [results |-> results, shape |-> shape]
            /\ outcome' = r.outcome
            /\ ret' = r.ret
            /\ calls' = r.calls
            /\ pre' = Snapshot
            /\ audit' = r.audit
            /\ UNCHANGED <<ledgerVars, orderPlaced, configVars>>

-----------------------------------------------------------------------------
(* Paypal.handle_processor_response: the execute flow *)

\* payment.payer.payer_info.email: None, empty or an address
PayerEmails == {None, [kind |-> "str", value |-> ""],
                [kind |-> "str", value |-> "buyer@example.com"]}

\* available_attempts with one attempt too many
ExecuteAvailableAttempts_extra ==
    IF switch_active THEN 2 + retry_attempts ELSE 1

\* available_attempts of handle_processor_response
ExecuteAvailableAttempts == IF switch_active THEN 1 + retry_attempts ELSE 1

\* the loop recording only the failure that exhausts the attempts
RECURSIVE ExecuteLoop_final_only(_, _, _, _)
ExecuteLoop_final_only(attempt_count, available_attempts, results, aud) ==
    IF attempt_count > available_attempts
    THEN [outcome |-> "exhausted", audit |-> aud, calls |-> attempt_count - 1]
    ELSE IF results[attempt_count]
    THEN [outcome |-> "break", audit |-> aud, calls |-> attempt_count]
    ELSE IF attempt_count = available_attempts
    THEN [outcome |-> "GatewayError",
          audit |-> Append(aud, AuditRow(NAME_PAYPAL,
                                         PaymentError(attempt_count).debug_id,
                                         PaymentError(attempt_count))),
          calls |-> attempt_count]
    ELSE ExecuteLoop_final_only(attempt_count + 1, available_attempts,
                                results, aud)

\* the for loop from attempt attempt_count on; results[i] is
\* payment.success() after the i-th execute call
RECURSIVE ExecuteLoop(_, _, _, _)
ExecuteLoop(attempt_count, available_attempts, results, aud) ==
    IF attempt_count > available_attempts
    THEN [outcome |-> "exhausted", audit |-> aud, calls |-> attempt_count - 1]
    ELSE IF results[attempt_count]
    THEN [outcome |-> "break", audit |-> aud, calls |-> attempt_count]
    ELSE LET error == PaymentError(attempt_count)
             recorded == Append(aud, AuditRow(NAME_PAYPAL, error.debug_id,
                                              error))
         IN  IF attempt_count = available_attempts
             THEN [outcome |-> "GatewayError", audit |-> recorded,
                   calls |-> attempt_count]
             ELSE ExecuteLoop(attempt_count + 1, available_attempts, results,
                              recorded)

\* a label formatted whether or not the payer has an email
PayerLabel_unchecked(email) ==
    <<"PayPal (", IF email = None THEN "None" ELSE email.value, ")">>

\* card_number of the HandledProcessorResponse
PayerLabel(email) ==
    IF email # None /\ email.value # ""
    THEN <<"PayPal (", email.value, ")">>
    ELSE <<"PayPal Account">>

\* maps the audit log aud to [outcome, ret, audit, calls]
Paypal_handle_processor_response(available_attempts, results, payment, aud) ==
    LET loop == ExecuteLoop(1, available_attempts, results, aud)
    IN  IF loop.outcome = "exhausted"
        THEN [outcome |-> "UnboundLocalError", ret |-> None,
              audit |-> loop.audit, calls |-> loop.calls]
        ELSE IF loop.outcome # "break"
        THEN [outcome |-> loop.outcome, ret |-> None, audit |-> loop.audit,
              calls |-> loop.calls]
        ELSE [outcome |-> "returned",
              ret |-> [kind |-> "handled", transaction_id |-> payment.id,
                       total |-> payment.total, currency |-> payment.currency,
                       card_number |-> PayerLabel(payment.email),
                       card_type |-> None],
              audit |-> Append(loop.audit,
                               AuditRow(NAME_PAYPAL, payment.id, payment)),
              calls |-> loop.calls]

PaypalHandleProcessorResponse ==
    \E results \in [1..ExecuteAvailableAttempts -> BOOLEAN],
       email \in PayerEmails :
        \E payment \in {[kind |-> "payment", id |-> PaymentIds[1],
                         total |-> basketTotal, currency |-> "USD",
                         email |-> email]} :
        \E r \in {Paypal_handle_processor_response(ExecuteAvailableAttempts,
                                                   results, payment, audit)} :
            /\ Len(audit) <= MaxAuditBefore
            /\ op' = "paypal.handle_processor_response"
            /\ arg' = [results |-> results, payment |-> payment]
            /\ outcome' = r.outcome
            /\ ret' = r.ret
            /\ calls' = r.calls
            /\ pre' = Snapshot
            /\ audit' = r.audit
            /\ UNCHANGED <<ledgerVars, orderPlaced, configVars>>

-----------------------------------------------------------------------------
(* Paypal.issue_credit *)

\* payment.transactions of the payment looked up: for each transaction its
\* related resources, each a sale or a resource without a sale
CreditTransactions ==
    { <<>>,
      << <<"refund">> >>,
      << <<"sale">> >>,
      << <<"authorization", "sale">>, <<"sale">> >> }

\* how Payment.find ends and how sale.refund ends
FindResults == {"found", "exception"}
RefundResults == {"success", "unsuccessful", "exception"}

\* related_resource.sale of resource r of transaction t
Sale(t, r) == [kind |-> "sale", id |-> <<t, r>>]

\* the refund sale.refund returns
SaleRefund(sale) == [kind |-> "refund", id |-> "REFUND-1", sale_id |-> sale.id]

\* the nested loops of _get_payment_sale from resource r of transaction t on
RECURSIVE GetPaymentSaleFrom(_, _, _)
GetPaymentSaleFrom(transactions, t, r) ==
    IF t > Len(transactions) THEN None
    ELSE IF r > Len(transactions[t])
    THEN GetPaymentSaleFrom(transactions, t + 1, 1)
    ELSE IF transactions[t][r] = "sale" THEN Sale(t, r)
    ELSE GetPaymentSaleFrom(transactions, t, r + 1)

_get_payment_sale(transactions) == GetPaymentSaleFrom(transactions, 1, 1)

\* the message of the GatewayError raised by the bare except
CreditErrorMessage ==
    [kind |-> "message",
     text |-> "An error occurred while attempting to issue a credit"]

\* the message of the GatewayError raised for an unsuccessful refund
RefundFailedMessage(sale_id, response_id) ==
    [kind |-> "message", text |-> "Failed to refund PayPal payment",
     sale_id |-> sale_id, response_id |-> response_id]

\* an issue_credit that records nothing for an unsuccessful refund
Paypal_issue_credit_unrecorded(find, transactions, refund_result, aud) ==
    IF find = "exception" \/ _get_payment_sale(transactions) = None
    THEN [outcome |-> "GatewayError", ret |-> CreditErrorMessage,
          audit |-> aud, calls |-> 1]
    ELSE IF refund_result = "exception"
    THEN [outcome |-> "GatewayError", ret |-> CreditErrorMessage,
          audit |-> aud, calls |-> 2]
    ELSE LET sale == _get_payment_sale(transactions)
             refund == SaleRefund(sale)
         IN  IF refund_result = "success"
             THEN [outcome |-> "returned",
                   ret |-> [kind |-> "str", value |-> refund.id],
                   audit |-> Append(aud, AuditRow(NAME_PAYPAL, refund.id,
                                                  refund)),
                   calls |-> 2]
             ELSE [outcome |-> "GatewayError",
                   ret |-> RefundFailedMessage(sale.id, Len(aud)),
                   audit |-> aud, calls |-> 2]

\* maps the audit log aud to [outcome, ret, audit, calls]; ret is the
\* transaction id returned or the message of the GatewayError raised.  The
\* id of an audit entry is its position in the log.
Paypal_issue_credit(find, transactions, refund_result, aud) ==
    IF find = "exception"
    THEN [outcome |-> "GatewayError", ret |-> CreditErrorMessage,
          audit |-> aud, calls |-> 1]
    ELSE LET sale == _get_payment_sale(transactions)
         IN  IF sale = None
             \* logged only; sale.refund on None raises AttributeError,
             \* which the bare except catches
             THEN [outcome |-> "GatewayError", ret |-> CreditErrorMessage,
                   audit |-> aud, calls |-> 1]
             ELSE IF refund_result = "exception"
             THEN [outcome |-> "GatewayError", ret |-> CreditErrorMessage,
                   audit |-> aud, calls |-> 2]
             ELSE IF refund_result = "success"
             THEN LET refund == SaleRefund(sale)
                  IN  [outcome |-> "returned",
                       ret |-> [kind |-> "str", value |-> refund.id],
                       audit |-> Append(aud, AuditRow(NAME_PAYPAL, refund.id,
                                                      refund)),
                       calls |-> 2]
             ELSE LET error == PaymentError(2)
                      recorded == Append(aud, AuditRow(NAME_PAYPAL,
                                                       error.debug_id, error))
                  IN  [outcome |-> "GatewayError",
                       ret |-> RefundFailedMessage(sale.id, Len(recorded)),
                       audit |-> recorded, calls |-> 2]

PaypalIssueCredit ==
    \E find \in FindResults, transactions \in CreditTransactions,
       refund_result \in RefundResults :
        \E r \in {Paypal_issue_credit(find, transactions, refund_result,
                                     audit)} :
            /\ Len(audit) <= MaxAuditBefore
            /\ op' = "paypal.issue_credit"
            /\ arg' = [find |-> find, transactions |-> transactions,
                       refund_result |-> refund_result]
            /\ outcome' = r.outcome
            /\ ret' = r.ret
            /\ calls' = r.calls
            /\ pre' = Snapshot
            /\ audit' = r.audit
            /\ UNCHANGED <<ledgerVars, orderPlaced, configVars>>

-----------------------------------------------------------------------------
(* The callers of the processors *)

\* the checkout view persists the source and the event the authorisation
\* handler returned, together with the order
PlaceOrder ==
    /\ op = "adyen.handle_processor_response"
    /\ outcome = "returned"
    /\ ret.kind = "source_event"
    /\ ~orderPlaced
    /\ orderPlaced' = TRUE
    /\ source' = ret.source
    /\ events' = Append(events, ret.event)
    /\ op' = "place_order"
    /\ arg' = None
    /\ outcome' = "returned"
    /\ ret' = None
    /\ calls' = 0
    /\ pre' = Snapshot
    /\ UNCHANGED <<refunds, revocations, audit, configVars>>

\* a refund of the order is approved and waits for the gateway's notification
CreateRefund ==
    \E status \in PendingStatuses, credit \in 1..MaxCredit :
        /\ orderPlaced
        /\ Len(refunds) < MaxRefunds
        /\ refunds' = Append(refunds, [status |-> status,
                                       total_credit_excl_tax |-> credit])
        /\ op' = "create_refund"
        /\ arg' = None
        /\ outcome' = "returned"
        /\ ret' = None
        /\ calls' = 0
        /\ pre' = Snapshot
        /\ UNCHANGED <<source, events, revocations, audit, orderPlaced,
                       configVars>>

-----------------------------------------------------------------------------
(* Specification *)

Init ==
    /\ basketTotal \in 1..MaxTotal
    /\ retry_attempts \in 0..MaxRetryAttempts
    /\ switch_active \in BOOLEAN
    /\ orderPlaced = FALSE
    /\ source = None
    /\ events = <<>>
    /\ refunds = <<>>
    /\ revocations = 0
    /\ audit = <<>>
    /\ op = "init"
    /\ arg = None
    /\ outcome = "returned"
    /\ ret = None
    /\ calls = 0
    /\ pre = [ledger |-> [source |-> None, events |-> <<>>, refunds |-> <<>>,
                          revocations |-> 0],
              audit |-> <<>>]

\* notifications handled by the Adyen processor, and the callers that
\* persist an order and approve refunds between them
NextAdyen ==
    \/ AdyenHandleProcessorResponse
    \/ PlaceOrder
    \/ CreateRefund

\* the PayPal configuration plays no part in the Adyen processor
InitAdyen == Init /\ retry_attempts = 0 /\ switch_active = FALSE

SpecAdyen == InitAdyen /\ [][NextAdyen]_vars

\* refund notifications for an order that has been placed, the writes of
\* their handling being liable to raise
NextRefund ==
    \/ AdyenHandleRefundNotification
    \/ CreateRefund

\* the order is placed: its source and its PAID event are those an
\* accepted authorisation returns
InitRefund ==
    /\ basketTotal \in 1..MaxTotal
    /\ retry_attempts = 0
    /\ switch_active = FALSE
    /\ orderPlaced = TRUE
    /\ \E psp_reference \in PspReferences :
          /\ source = NewSource(basketTotal, psp_reference)
          /\ events = <<NewEvent(PAID, basketTotal, psp_reference)>>
    /\ refunds = <<>>
    /\ revocations = 0
    /\ audit = <<>>
    /\ op = "place_order"
    /\ arg = None
    /\ outcome = "returned"
    /\ ret = None
    /\ calls = 0
    /\ pre = [ledger |-> [source |-> None, events |-> <<>>, refunds |-> <<>>,
                          revocations |-> 0],
              audit |-> <<>>]

SpecRefund == InitRefund /\ [][NextRefund]_vars

\* the create and execute flows of the PayPal processor
NextPaypal ==
    \/ PaypalGetTransactionParameters
    \/ PaypalHandleProcessorResponse

SpecPaypal == Init /\ [][NextPaypal]_vars

\* the requests the processors send to the gateways on behalf of a caller:
\* the Adyen authorisation and the credits of both processors
NextCredit ==
    \/ AdyenAuthorise
    \/ AdyenIssueCredit
    \/ PaypalIssueCredit

SpecCredit == Init /\ [][NextCredit]_vars

\* _get_shopper_data applied to keyword arguments drawn at the start
NextShopper ==
    \/ GetShopperData

InitShopper ==
    /\ basketTotal \in 1..MaxTotal
    /\ retry_attempts = 0
    /\ switch_active = FALSE
    /\ orderPlaced = FALSE
    /\ source = None
    /\ events = <<>>
    /\ refunds = <<>>
    /\ revocations = 0
    /\ audit = <<>>
    /\ op = "init"
    /\ arg \in ShopperData
    /\ outcome = "returned"
    /\ ret = None
    /\ calls = 0
    /\ pre = [ledger |-> [source |-> None, events |-> <<>>, refunds |-> <<>>,
                          revocations |-> 0],
              audit |-> <<>>]

SpecShopper == InitShopper /\ [][NextShopper]_vars

-----------------------------------------------------------------------------
(* Properties *)

AdyenHandled == op = "adyen.handle_processor_response"
PaypalCreated == op = "paypal.get_transaction_parameters"
PaypalExecuted == op = "paypal.handle_processor_response"
AdyenCredited == op = "adyen.issue_credit"
PaypalCredited == op = "paypal.issue_credit"
AdyenAuthorised == op = "adyen.authorise"
ShopperDataBuilt == op = "adyen._get_shopper_data"

Has(d, k) == k \in DOMAIN d

\* the spellings of the authorisation event code and of the accepting
\* result code among the inputs
AuthorisationCodes == {EC_AUTHORISATION, EC_Authorisation}
AuthorisedCodes == {RC_Authorised, RC_AUTHORISED}

\* the audit rows the last invocation wrote
NewRows == SubSeq(audit, Len(pre.audit) + 1, Len(audit))

\* the audit log only grows
AuditAppended ==
    /\ Len(pre.audit) <= Len(audit)
    /\ SubSeq(audit, 1, Len(pre.audit)) = pre.audit

\* C1: an Adyen response whose eventCode spells 'authorisation' in any
\* letter case, that carries a pspReference and whose resultCode spells
\* 'authorised' in any letter case, handled for a basket, returns one Source
\* allocated and debited at basket.total_incl_tax and one PAID PaymentEvent
\* of that amount, both with reference = pspReference.
C1_AuthorisedReturnsSourceAndEvent ==
    ( /\ AdyenHandled
      /\ Has(arg.response, "eventCode")
      /\ arg.response.eventCode \in AuthorisationCodes
      /\ Has(arg.response, "pspReference")
      /\ Has(arg.response, "resultCode")
      /\ arg.response.resultCode \in AuthorisedCodes
      /\ arg.basket # None )
    => /\ outcome = "returned"
       /\ ret.kind = "source_event"
       /\ ret.source.amount_allocated = arg.basket.total_incl_tax
       /\ ret.source.amount_debited = arg.basket.total_incl_tax
       /\ ret.source.reference = arg.response.pspReference
       /\ ret.event.event_type = PAID
       /\ ret.event.amount = arg.basket.total_incl_tax
       /\ ret.event.reference = arg.response.pspReference

\* an authorisation spelled in mixed case with an upper-case result code
\* has been accepted
C1_Witness ==
    /\ AdyenHandled
    /\ outcome = "returned"
    /\ ret.kind = "source_event"
    /\ arg.response.eventCode = EC_Authorisation
    /\ arg.response.resultCode = RC_AUTHORISED

\* C2: every Adyen authorisation response whose resultCode is anything
\* other than 'authorised' raises TransactionDeclined, returns no Source
\* and no PaymentEvent and leaves the ledger as it was.
C2_DeclinedRaisesTransactionDeclined ==
    ( /\ AdyenHandled
      /\ Has(arg.response, "eventCode")
      /\ arg.response.eventCode \in AuthorisationCodes
      /\ Has(arg.response, "resultCode")
      /\ arg.response.resultCode \notin AuthorisedCodes )
    => /\ outcome = "TransactionDeclined"
       /\ ret = None
       /\ Ledger = pre.ledger

\* C3: every invocation of handle_processor_response, of the Adyen as of
\* the PayPal processor, has written the raw response to the audit log when
\* it returns or raises.
C3_HandledResponseAudited ==
    (AdyenHandled \/ PaypalExecuted)
    => /\ AuditAppended
       /\ Len(NewRows) >= 1
       /\ AdyenHandled =>
              \E i \in DOMAIN NewRows : NewRows[i].response = arg.response

\* C4: PayPal create flow with the retry switch active and retry count N:
\* when the first N-1 attempts are unsuccessful and the N-th succeeds (its
\* payment carrying an approval link), N audit rows are written and the
\* returned payment_page_url is the approval URL of the N-th attempt.
C4_CreateAuditRowPerAttempt ==
    ( /\ PaypalCreated
      /\ switch_active
      /\ retry_attempts >= 1
      /\ \A i \in 1..(retry_attempts - 1) : arg.results[i] = "unsuccessful"
      /\ arg.results[retry_attempts] = "success"
      /\ \E k \in DOMAIN arg.shape : arg.shape[k] = "approval_url" )
    => /\ AuditAppended
       /\ Len(NewRows) = retry_attempts
       /\ outcome = "returned"
       /\ \E k \in DOMAIN arg.shape :
              /\ arg.shape[k] = "approval_url"
              /\ ret.payment_page_url = <<retry_attempts, k>>

\* the execute attempts an invocation makes: up to the first success, or
\* all that are available
ExecuteAttemptsMade ==
    IF \E i \in DOMAIN arg.results : arg.results[i]
    THEN CHOOSE i \in DOMAIN arg.results :
             /\ arg.results[i]
             /\ \A j \in 1..(i - 1) : ~arg.results[j]
    ELSE Len(arg.results)

C6_AtMostNExecuteCalls ==
    (PaypalExecuted /\ switch_active /\ outcome = "GatewayError")
    => calls <= retry_attempts

\* C6 amended: with the retry switch active and retry count N, an
\* invocation of the execute flow makes at most N + 1 execute calls, the
\* first attempt and N retries, and has made exactly N + 1 when it raises
\* GatewayError.
C6_AtMostNPlusOneExecuteCalls ==
    (PaypalExecuted /\ switch_active)
    => /\ calls <= retry_attempts + 1
       /\ outcome = "GatewayError" => calls = retry_attempts + 1

\* with retry count 2 the execute flow gave up after three calls
C6_Witness ==
    /\ PaypalExecuted
    /\ switch_active
    /\ retry_attempts = 2
    /\ outcome = "GatewayError"
    /\ calls = 3

\* C7: PayPal create flow: when every available attempt fails, by an
\* unsuccessful result or by an exception, the invocation raises
\* GatewayError and the error of the last attempt is in the audit log.
C7_CreateFailureRaisesGatewayError ==
    ( /\ PaypalCreated
      /\ Len(arg.results) >= 1
      /\ \A i \in DOMAIN arg.results : arg.results[i] # "success" )
    => /\ outcome = "GatewayError"
       /\ AuditAppended
       /\ Len(NewRows) >= 1
       /\ NewRows[Len(NewRows)].response.kind = "error"

\* C8: Adyen issue_credit: a reply with a non-OK status, or with an OK
\* status whose response field is not '[cancelOrRefund-received]', raises
\* GatewayError after an audit row holding the reply was written.
C8_CreditFailureAudited ==
    ( /\ AdyenCredited
      /\ \/ arg.status_code # HTTP_OK
         \/ /\ Has(arg.adyen_response, "response")
            /\ arg.adyen_response.response # CANCEL_OR_REFUND_RECEIVED )
    => /\ outcome = "GatewayError"
       /\ AuditAppended
       /\ Len(NewRows) = 1
       /\ NewRows[1].response = arg.adyen_response

\* C9: an Adyen response without the eventCode key raises MissingEventCode
\* and one whose eventCode has no handler raises UnsupportedEvent, whatever
\* its other fields are; neither changes the ledger.
C9_EventCodeErrors ==
    AdyenHandled
    => /\ ~Has(arg.response, "eventCode")
            => /\ outcome = "MissingAdyenEventCodeException"
               /\ Ledger = pre.ledger
       /\ (Has(arg.response, "eventCode")
              /\ arg.response.eventCode = EC_CAPTURE)
            => /\ outcome = "UnsupportedAdyenEventException"
               /\ Ledger = pre.ledger

\* C10: the order's payment source never has more debited than allocated,
\* nor more refunded than debited.
C10_SourceAmountsOrdered ==
    source # None
    => /\ source.amount_debited <= source.amount_allocated
       /\ source.amount_refunded <= source.amount_debited

\* C11: after any sequence of notifications, repeated deliveries included,
\* there is at most one PaymentEvent per (reference, event type): the events
\* persisted are pairwise distinct in that pair, and a handled notification
\* returns no PaymentEvent whose reference and type an event already
\* persisted carries.
C11_OneEventPerReferenceAndType ==
    /\ \A i, j \in DOMAIN events :
          i # j => \/ events[i].reference # events[j].reference
                   \/ events[i].event_type # events[j].event_type
    /\ ( /\ AdyenHandled
         /\ outcome = "returned"
         /\ ret.kind = "source_event" )
       => \A i \in DOMAIN events :
             \/ events[i].reference # ret.event.reference
             \/ events[i].event_type # ret.event.event_type

\* a cancel-or-refund notification with a pspReference, handled for the
\* basket of an order that had exactly one pending refund
RefundNotificationHandled ==
    /\ AdyenHandled
    /\ Has(arg.response, "eventCode")
    /\ arg.response.eventCode = EC_CANCEL_OR_REFUND
    /\ Has(arg.response, "pspReference")
    /\ arg.basket # None
    /\ Cardinality({i \in DOMAIN pre.ledger.refunds :
          pre.ledger.refunds[i].status \in PendingStatuses}) = 1

\* the refund that was pending when the last notification arrived
PendingBefore ==
    CHOOSE i \in DOMAIN pre.ledger.refunds :
        pre.ledger.refunds[i].status \in PendingStatuses

\* C12: a cancel-or-refund notification whose success field is truthy, for
\* an order with one refund pending with or without revocation, none of
\* whose ledger writes raises, credits the
\* order's source by refund.total_credit_excl_tax, leaves the refund
\* completed (past PAYMENT_REFUNDED), requests the revocation of the
\* fulfillment exactly when the refund was PENDING_WITH_REVOCATION, and
\* creates exactly one REFUNDED PaymentEvent of that amount with
\* reference = pspReference.
C12_RefundSuccessApplied ==
    ( /\ RefundNotificationHandled
      /\ Has(arg.response, "success")
      /\ arg.response.success
      /\ arg.fail_at = 0 )
    => LET was == pre.ledger.refunds[PendingBefore]
       IN  /\ outcome = "returned"
           /\ source = [pre.ledger.source EXCEPT !.amount_refunded =
                            @ + was.total_credit_excl_tax]
           /\ refunds = [pre.ledger.refunds EXCEPT ![PendingBefore] =
                            [was EXCEPT !.status = COMPLETE]]
           /\ revocations = pre.ledger.revocations +
                 (IF was.status = PENDING_WITH_REVOCATION THEN 1 ELSE 0)
           /\ events = Append(pre.ledger.events,
                 [event_type |-> REFUNDED,
                  amount |-> was.total_credit_excl_tax,
                  reference |-> arg.response.pspReference,
                  processor_name |-> NAME_ADYEN])

\* a successful notification has completed a refund that was pending
\* without revocation: no revocation was requested
C12_Witness ==
    /\ RefundNotificationHandled
    /\ Has(arg.response, "success")
    /\ arg.response.success
    /\ arg.fail_at = 0
    /\ pre.ledger.refunds[PendingBefore].status = PENDING_WITHOUT_REVOCATION
    /\ refunds[PendingBefore].status = COMPLETE
    /\ revocations = pre.ledger.revocations
    /\ Len(events) = Len(pre.ledger.events) + 1

\* C13: a cancel-or-refund notification whose success field is absent or
\* falsy raises GatewayError, leaves the refund in its pending status and
\* the source's amounts as they were, and creates no PaymentEvent.
C13_RefundFailureLeavesLedger ==
    ( /\ RefundNotificationHandled
      /\ (~Has(arg.response, "success") \/ ~arg.response.success) )
    => /\ outcome = "GatewayError"
       /\ refunds = pre.ledger.refunds
       /\ source = pre.ledger.source
       /\ events = pre.ledger.events
       /\ revocations = pre.ledger.revocations

\* a notification without a success field was refused while a refund was
\* pending
C13_Witness ==
    /\ RefundNotificationHandled
    /\ ~Has(arg.response, "success")
    /\ outcome = "GatewayError"
    /\ refunds[PendingBefore].status \in PendingStatuses

\* the create attempt that succeeded: the first one with a successful result
CreateSucceededAt ==
    CHOOSE i \in DOMAIN arg.results :
        /\ arg.results[i] = "success"
        /\ \A j \in 1..(i - 1) : arg.results[j] # "success"

\* the positions of the approval_url links of the created payment
ApprovalPositions == {k \in DOMAIN arg.shape : arg.shape[k] = "approval_url"}

\* C14: PayPal create flow: whenever a create attempt succeeds, exactly one
\* audit row holding the created payment is written; when the payment has
\* no approval_url link the invocation raises GatewayError, that row being
\* written, and otherwise it returns as payment_page_url the href of the
\* first approval_url link.
C14_CreatedPaymentRecordedOnce ==
    ( /\ PaypalCreated
      /\ \E i \in DOMAIN arg.results : arg.results[i] = "success" )
    => /\ AuditAppended
       /\ Len(NewRows) = 1
       /\ NewRows[1].response.kind = "payment"
       /\ NewRows[1].response.id = PaymentIds[CreateSucceededAt]
       /\ NewRows[1].transaction_id = PaymentIds[CreateSucceededAt]
       /\ IF ApprovalPositions = {}
          THEN outcome = "GatewayError"
          ELSE /\ outcome = "returned"
               /\ \E k \in ApprovalPositions :
                     /\ \A j \in ApprovalPositions : k <= j
                     /\ ret.payment_page_url = <<CreateSucceededAt, k>>

\* a payment created at the second attempt had no approval link: its row
\* was written and GatewayError raised
C14_Witness ==
    /\ PaypalCreated
    /\ Len(arg.results) >= 2
    /\ arg.results[2] = "success"
    /\ CreateSucceededAt = 2
    /\ ApprovalPositions = {}
    /\ outcome = "GatewayError"
    /\ Len(NewRows) = 1
    /\ NewRows[1].response.kind = "payment"

SaleFound ==
    \E t \in DOMAIN arg.transactions :
        \E r \in DOMAIN arg.transactions[t] : arg.transactions[t][r] = "sale"

\* the PayPal gateway answered the refund request
RefundResponseReceived ==
    /\ arg.find = "found"
    /\ SaleFound
    /\ arg.refund_result \in {"success", "unsuccessful"}

\* C15: issue_credit, of the Adyen as of the PayPal processor, returns the
\* gateway's transaction id of the credit when the gateway accepts it: the
\* pspReference of the Adyen reply, the id of the PayPal refund.
C15_CreditReturnsTransactionId ==
    /\ ( /\ AdyenCredited
         /\ arg.status_code = HTTP_OK
         /\ Has(arg.adyen_response, "pspReference")
         /\ Has(arg.adyen_response, "response")
         /\ arg.adyen_response.response = CANCEL_OR_REFUND_RECEIVED )
       => /\ outcome = "returned"
          /\ ret.kind = "str"
          /\ ret.value = arg.adyen_response.pspReference
    /\ ( /\ PaypalCredited
         /\ RefundResponseReceived
         /\ arg.refund_result = "success" )
       => /\ outcome = "returned"
          /\ ret.kind = "str"
          /\ ret.value = audit[Len(audit)].response.id

C18_CreditFailuresRaiseGatewayError ==
    PaypalCredited
    => /\ AuditAppended
       /\ ( \/ arg.find = "exception"
            \/ ~SaleFound
            \/ arg.refund_result \in {"exception", "unsuccessful"} )
          => outcome = "GatewayError"
       /\ RefundResponseReceived
          => /\ Len(NewRows) = 1
             /\ NewRows[1].response.kind =
                    IF arg.refund_result = "success" THEN "refund" ELSE "error"
       /\ (RefundResponseReceived /\ arg.refund_result = "unsuccessful")
          => /\ ret.kind = "message"
             /\ Has(ret, "response_id")
             /\ ret.response_id = Len(audit)
             /\ audit[ret.response_id].response.kind = "error"

\* an unsuccessful refund of the sale found in the second resource was
\* recorded and refused with a message naming the entry
C18_Witness ==
    /\ PaypalCredited
    /\ arg.find = "found"
    /\ Len(arg.transactions) = 2
    /\ arg.refund_result = "unsuccessful"
    /\ outcome = "GatewayError"
    /\ Len(NewRows) = 1
    /\ ret.kind = "message"
    /\ Has(ret, "response_id")
    /\ ret.response_id = Len(audit)
    /\ ret.sale_id = <<1, 2>>

\* the billing address of the last call cannot be split: it is not empty
\* and holds no space
Unsplittable ==
    /\ Len(arg.billing_address) > 0
    /\ \A i \in DOMAIN arg.billing_address : arg.billing_address[i] # " "

\* C19: in the mapping _get_shopper_data returns, the name, email, billing
\* and IP blocks appear only if a field of the block is non-empty; with
\* every field empty the mapping is empty; with only the email set it is
\* exactly {shopperEmail: email}; and a non-empty billing_address without a
\* space gives no billing block at all, even when city, state, postal code
\* or country are set, and raises nothing.
C19_ShopperDataBlocks ==
    ShopperDataBuilt
    => LET d == ret.data
           others == /\ arg.first_name = ""
                     /\ arg.last_name = ""
                     /\ Len(arg.billing_address) = 0
                     /\ arg.city = ""
                     /\ arg.state = ""
                     /\ arg.postal_code = ""
                     /\ arg.country = ""
                     /\ arg.ip = ""
       IN  /\ outcome = "returned"
           /\ DOMAIN d \subseteq {"shopper_name", "shopperEmail",
                                  "billingAddress", "shopperIP"}
           /\ Has(d, "shopper_name")
                => (arg.first_name # "" \/ arg.last_name # "")
           /\ Has(d, "shopperEmail") => arg.email # ""
           /\ Has(d, "billingAddress")
                => \/ Len(arg.billing_address) > 0
                   \/ arg.city # ""
                   \/ arg.state # ""
                   \/ arg.postal_code # ""
                   \/ arg.country # ""
           /\ Has(d, "shopperIP") => arg.ip # ""
           /\ (others /\ arg.email = "") => DOMAIN d = {}
           /\ (others /\ arg.email # "")
                => /\ DOMAIN d = {"shopperEmail"}
                   /\ d.shopperEmail = arg.email
           /\ Unsplittable => ~Has(d, "billingAddress")

\* an address without a space, with its city and country set, left no
\* billing block beside the email and the name
C19_Witness ==
    /\ ShopperDataBuilt
    /\ Unsplittable
    /\ arg.city # ""
    /\ arg.country # ""
    /\ outcome = "returned"
    /\ DOMAIN ret.data = {"shopper_name", "shopperEmail"}

\* the event codes among the inputs that have a registered handler
RegisteredCodes == AuthorisationCodes \cup {EC_CANCEL_OR_REFUND}

\* C20: the error classification of Adyen handle_processor_response is
\* exact: MissingEventCode is raised only when the response has no
\* eventCode key and UnsupportedEvent only when its event code has no
\* registered handler; a failure inside a registered handler (a missing
\* resultCode, a basket without an order, a missing basket) is reported as
\* neither.
C20_ErrorClassificationExact ==
    AdyenHandled
    => /\ outcome = "MissingAdyenEventCodeException"
            => ~Has(arg.response, "eventCode")
       /\ outcome = "UnsupportedAdyenEventException"
            => /\ Has(arg.response, "eventCode")
               /\ arg.response.eventCode \notin RegisteredCodes

\* what the last handled notification applied to the ledger
SourceCredited == source # pre.ledger.source
RefundLeftPending ==
    \E i \in DOMAIN refunds :
        /\ pre.ledger.refunds[i].status \in PendingStatuses
        /\ refunds[i].status \notin PendingStatuses
RefundedEventCreated == Len(events) > Len(pre.ledger.events)

\* C21: the handling of a cancel-or-refund notification is all-or-nothing
\* on the ledger: when the handler has ended, returning or raising at any
\* of its writes, the credit of the source, the refund leaving its pending
\* status and the REFUNDED event are all applied or none is; the source is
\* never credited beyond what the REFUNDED events record.
C21_RefundAllOrNothing ==
    /\ AdyenHandled
       => \/ SourceCredited /\ RefundLeftPending /\ RefundedEventCreated
          \/ ~SourceCredited /\ ~RefundLeftPending /\ ~RefundedEventCreated
    /\ Unrecorded = 0

\* C22: the PayPal retry loops are bounded and stop at the first success:
\* every invocation of get_transaction_parameters and of
\* handle_processor_response ends after at most retry_attempts + 1 gateway
\* calls, makes no call after an attempt that succeeded, and makes exactly
\* one attempt when the PAYPAL_RETRY_ATTEMPTS switch is inactive, whatever
\* the configured retry count is.
C22_RetryLoopsBounded ==
    /\ PaypalCreated
       => /\ calls <= retry_attempts + 1
          /\ (\E i \in DOMAIN arg.results : arg.results[i] = "success")
                => calls = CreateSucceededAt
          /\ ~switch_active => calls = 1
    /\ PaypalExecuted
       => /\ calls <= retry_attempts + 1
          /\ \A i \in DOMAIN arg.results :
                arg.results[i] => calls <= i
          /\ ~switch_active => calls = 1

\* with the switch inactive and a retry count of 3 a failed execute was
\* not retried
C22_Witness ==
    /\ PaypalExecuted
    /\ ~switch_active
    /\ retry_attempts = 3
    /\ outcome = "GatewayError"
    /\ calls = 1

\* C23: every invocation of get_transaction_parameters makes at least one
\* create-payment call, for every configured retry count, 0 with the
\* switch active included: it reaches the audit record and the approval
\* URL only with a payment created by a successful attempt, and it ends
\* with the parameters or with GatewayError.
C23_CreateCalledAtLeastOnce ==
    PaypalCreated
    => /\ calls >= 1
       /\ outcome \in {"returned", "GatewayError"}
       /\ (\E i \in DOMAIN NewRows : NewRows[i].response.kind = "payment")
             => \E i \in DOMAIN arg.results : arg.results[i] = "success"

\* the last notification had been handled with success before: a REFUNDED
\* event carrying its pspReference existed and a refund of the order was
\* completed
RedeliveredAfterSuccess ==
    /\ AdyenHandled
    /\ Has(arg.response, "eventCode")
    /\ arg.response.eventCode = EC_CANCEL_OR_REFUND
    /\ Has(arg.response, "pspReference")
    /\ Has(arg.response, "success")
    /\ arg.response.success
    /\ arg.basket # None
    /\ \E i \in DOMAIN pre.ledger.events :
          /\ pre.ledger.events[i].event_type = REFUNDED
          /\ pre.ledger.events[i].reference = arg.response.pspReference
    /\ \E i \in DOMAIN pre.ledger.refunds :
          pre.ledger.refunds[i].status = COMPLETE
    /\ \A i \in DOMAIN pre.ledger.refunds :
          /\ pre.ledger.refunds[i].status # PENDING_WITH_REVOCATION
          /\ pre.ledger.refunds[i].status # PENDING_WITHOUT_REVOCATION

\* C24: once a successful CANCEL_OR_REFUND notification has been handled
\* for an order and its refund completed, no refund of the order being
\* pending any more, handling the same notification again credits the
\* source no second time and creates no second REFUNDED event: the source's
\* refunded amount after the redelivery equals its value before.
C24_RedeliveryChangesNothing ==
    RedeliveredAfterSuccess
    => /\ outcome = "DoesNotExist"
       /\ source.amount_refunded = pre.ledger.source.amount_refunded
       /\ source = pre.ledger.source
       /\ events = pre.ledger.events
       /\ refunds = pre.ledger.refunds
       /\ revocations = pre.ledger.revocations

\* a notification was delivered again after its refund was completed and
\* the source credited
C24_Witness ==
    /\ RedeliveredAfterSuccess
    /\ source.amount_refunded > 0
    /\ Len(events) = 2
    /\ outcome = "DoesNotExist"

====
